---- MODULE Spec2Model ----
(***************************************************************************)
(* External-editor support of the TUI (codex-rs/tui/src/editor.rs).        *)
(*                                                                         *)
(*   resolve_editor_command : reads VISUAL / EDITOR from the process       *)
(*                            environment and tokenizes the value with     *)
(*                            shlex::split.                                *)
(*   run_editor             : writes the seed to a temp file, runs the     *)
(*                            editor on it, reads the file back.           *)
(*                                                                         *)
(* A string is a sequence of one-character strings; a command is a         *)
(* sequence of strings.                                                    *)
(***************************************************************************)
EXTENDS Integers, Sequences, FiniteSets, TLC

VARIABLES
    env,         \* process environment: VISUAL and EDITOR
    rpc,         \* position of the resolve_editor_command call
    resolved,    \* value returned by resolve_editor_command
    pc,          \* per run_editor call: the step it has reached
    seed,        \* per call: argument seed
    editor_cmd,  \* per call: argument editor_cmd
    tempfile,    \* per call: path of its NamedTempFile, NoPath before it exists
    child,       \* per call: the editor process it spawned
    contents,    \* per call: the text read back from the temp file
    result,      \* per call: the value returned
    trace,       \* per call: the file system and process operations it made
    fs,          \* the temp directory: path -> file
    ticks        \* steps taken by another task of the host's runtime

resolveVars == <<env, rpc, resolved>>
runVars == <<pc, seed, editor_cmd, tempfile, child, contents, result, trace, fs>>
hostVars == <<ticks>>
vars == <<env, rpc, resolved, pc, seed, editor_cmd, tempfile, child, contents, result, trace, fs,
          ticks>>

----------------------------------------------------------------------------
(* Bounds *)

\* longest environment value enumerated character by character
MaxValLen == 3
\* longest seed / edited text enumerated character by character
MaxTextLen == 1
\* longest editor command, in tokens
MaxCmdLen == 2
\* steps the other task of the host takes
MaxTicks == 2
\* worker threads of the runtime the host's tasks share
Workers == 1
\* number of names the temp directory can hold
NPaths == 2
\* largest exit code an editor process reports
MaxExitCode == 1

----------------------------------------------------------------------------
(* Characters and strings *)

DQ == "\""
SQ == "'"
BS == "\\"
NL == "\n"
SP == " "
HASH == "#"
DOLLAR == "$"
\* the backquote character (written as a name: the atom stands for the character)
BQ == "backquote"

\* the characters shlex treats as word separators
Whitespace == {SP, "\t", NL}

\* alphabet of the enumerated environment values
Chars == {"a", "b", SP, NL, DQ, SQ, BS, HASH}

StringsUpTo(n) == UNION {[1..k -> Chars] : k \in 0..n}

\* values taken from the tests and the documentation of the module
StrVis == <<"v", "i", "s">>
StrEd == <<"e", "d">>
StrCodeWait == <<"c", "o", "d", "e", SP, "-", "-", "w", "a", "i", "t">>
StrProgFlag ==
    <<"p", "r", "o", "g", SP, "-", "-", "f", "l", "a", "g", SP, DQ, "a", SP, "b", DQ>>
StrUnmatched == <<"e", "d", SP, DQ, "a">>
StrBlank == <<SP, SP, SP>>
StrDollar == <<DQ, BS, DOLLAR, "a", BS, "a", DQ>>
StrQuotedMid == <<"a", DQ, SP, DQ, "b">>
StrTwoQuoted == <<SQ, "a", SP, "b", SQ, SP, DQ, "b", SP, SQ, DQ>>
StrEscapedBlank == <<"a", BS, SP, "b", SP, "b">>

Examples == {StrVis, StrEd, StrCodeWait, StrProgFlag, StrUnmatched, StrBlank, StrDollar,
             StrQuotedMid, StrTwoQuoted, StrEscapedBlank}

----------------------------------------------------------------------------
(* std::env::var *)

Unset == [st |-> "unset", val |-> <<>>]
NotUnicode == [st |-> "notunicode", val |-> <<>>]
Set(s) == [st |-> "set", val |-> s]

\* env::var(key): Ok(value) when the variable is present and valid unicode,
\* Err(NotPresent) / Err(NotUnicode) otherwise.
env_var(e, key) ==
    IF e[key].st = "set" THEN [ok |-> TRUE, val |-> e[key].val]
    ELSE [ok |-> FALSE, val |-> <<>>]

----------------------------------------------------------------------------
(* shlex::split, the tokenizer resolve_editor_command calls *)

WordOk(w, p) == [err |-> FALSE, word |-> w, pos |-> p]
WordErr(p) == [err |-> TRUE, word |-> <<>>, pos |-> p]

\* Inside double quotes; i is the index of the next unread character.
RECURSIVE parse_double(_, _, _)
parse_double(s, i, out) ==
    IF i > Len(s) THEN WordErr(i)
    ELSE IF s[i] = BS THEN
        IF i + 1 > Len(s) THEN WordErr(i + 1)
        ELSE IF s[i + 1] \in {DOLLAR, BQ, DQ, BS}
            THEN parse_double(s, i + 2, Append(out, s[i + 1]))
        ELSE IF s[i + 1] = NL THEN parse_double(s, i + 2, out)
        ELSE parse_double(s, i + 2, out \o <<BS, s[i + 1]>>)
    ELSE IF s[i] = DQ THEN WordOk(out, i + 1)
    ELSE parse_double(s, i + 1, Append(out, s[i]))

\* Inside single quotes: everything up to the closing quote is literal.
RECURSIVE parse_single(_, _, _)
parse_single(s, i, out) ==
    IF i > Len(s) THEN WordErr(i)
    ELSE IF s[i] = SQ THEN WordOk(out, i + 1)
    ELSE parse_single(s, i + 1, Append(out, s[i]))

\* One word starting with the character at index i (which exists).
RECURSIVE parse_word(_, _, _)
parse_word(s, i, out) ==
    LET more(r) == IF r.err THEN r
                   ELSE IF r.pos > Len(s) THEN r
                   ELSE parse_word(s, r.pos, r.word)
    IN  IF s[i] = DQ THEN more(parse_double(s, i + 1, out))
        ELSE IF s[i] = SQ THEN more(parse_single(s, i + 1, out))
        ELSE IF s[i] = BS THEN
            IF i + 1 > Len(s) THEN WordErr(i + 1)
            ELSE IF s[i + 1] = NL THEN more(WordOk(out, i + 2))
            ELSE more(WordOk(Append(out, s[i + 1]), i + 2))
        ELSE IF s[i] \in Whitespace THEN WordOk(out, i + 1)
        ELSE more(WordOk(Append(out, s[i]), i + 1))

\* Index just after the newline that ends a comment (past the end if none).
RECURSIVE skip_comment(_, _)
skip_comment(s, i) ==
    IF i > Len(s) THEN i
    ELSE IF s[i] = NL THEN i + 1
    ELSE skip_comment(s, i + 1)

\* Index of the first character of the next word, 0 when the input is used up.
RECURSIVE skip_blank(_, _)
skip_blank(s, i) ==
    IF i > Len(s) THEN 0
    ELSE IF s[i] \in Whitespace THEN skip_blank(s, i + 1)
    ELSE IF s[i] = HASH THEN skip_blank(s, skip_comment(s, i + 1))
    ELSE i

RECURSIVE shlex_collect(_, _, _)
shlex_collect(s, i, acc) ==
    LET start == skip_blank(s, i) IN
    IF start = 0 THEN [ok |-> TRUE, parts |-> acc]
    ELSE LET w == parse_word(s, start, <<>>) IN
         IF w.err THEN [ok |-> FALSE, parts |-> <<>>]
         ELSE shlex_collect(s, w.pos, Append(acc, w.word))

\* shlex::split(in_str): Some(words), or None when a quote or an escape is
\* left open at the end of the input.
shlex_split(s) == shlex_collect(s, 1, <<>>)

----------------------------------------------------------------------------
(* resolve_editor_command *)

Ok(parts) == [ok |-> TRUE, parts |-> parts, err |-> "none"]
Err(e) == [ok |-> FALSE, parts |-> <<>>, err |-> e]
NotReturned == [ok |-> FALSE, parts |-> <<>>, err |-> "pending"]

EditorError == {"MissingEditor", "ParseFailed", "EmptyCommand"}

\* env::var("EDITOR").or_else(|_| env::var("VISUAL")): the two names swapped
resolve_editor_command_editor_first(e) ==
    LET editor == env_var(e, "EDITOR")
        raw == IF editor.ok THEN editor ELSE env_var(e, "VISUAL")
    IN  IF ~raw.ok THEN Err("MissingEditor")
        ELSE LET parts == shlex_split(raw.val) IN
             IF ~parts.ok THEN Err("ParseFailed")
             ELSE IF parts.parts = <<>> THEN Err("EmptyCommand")
             ELSE Ok(parts.parts)

\* env::var("VISUAL") alone: the or_else fallback to EDITOR left out
resolve_editor_command_no_fallback(e) ==
    LET raw == env_var(e, "VISUAL")
    IN  IF ~raw.ok THEN Err("MissingEditor")
        ELSE LET parts == shlex_split(raw.val) IN
             IF ~parts.ok THEN Err("ParseFailed")
             ELSE IF parts.parts = <<>> THEN Err("EmptyCommand")
             ELSE Ok(parts.parts)

\* the parts.is_empty() check left out
resolve_editor_command_no_empty_check(e) ==
    LET visual == env_var(e, "VISUAL")
        raw == IF visual.ok THEN visual ELSE env_var(e, "EDITOR")
    IN  IF ~raw.ok THEN Err("MissingEditor")
        ELSE LET parts == shlex_split(raw.val) IN
             IF ~parts.ok THEN Err("ParseFailed")
             ELSE Ok(parts.parts)

\* shlex_split(&raw).unwrap_or_default() in place of ok_or(ParseFailed)
resolve_editor_command_unwrap_or_default(e) ==
    LET visual == env_var(e, "VISUAL")
        raw == IF visual.ok THEN visual ELSE env_var(e, "EDITOR")
    IN  IF ~raw.ok THEN Err("MissingEditor")
        ELSE LET parts == shlex_split(raw.val) IN
             IF ~parts.ok \/ parts.parts = <<>> THEN Err("EmptyCommand")
             ELSE Ok(parts.parts)

\* raw.split_whitespace(): words cut at every blank, quotes kept as characters
RECURSIVE split_whitespace(_, _, _, _)
split_whitespace(s, i, word, acc) ==
    LET flush == IF word = <<>> THEN acc ELSE Append(acc, word) IN
    IF i > Len(s) THEN flush
    ELSE IF s[i] \in Whitespace THEN split_whitespace(s, i + 1, <<>>, flush)
    ELSE split_whitespace(s, i + 1, Append(word, s[i]), acc)

resolve_editor_command_split_whitespace(e) ==
    LET visual == env_var(e, "VISUAL")
        raw == IF visual.ok THEN visual ELSE env_var(e, "EDITOR")
    IN  IF ~raw.ok THEN Err("MissingEditor")
        ELSE LET parts == split_whitespace(raw.val, 1, <<>>, <<>>) IN
             IF parts = <<>> THEN Err("EmptyCommand")
             ELSE Ok(parts)

\* VISUAL used only if it tokenizes to a command, EDITOR tried otherwise
resolve_editor_command_skips_unusable(e) ==
    LET visual == env_var(e, "VISUAL")
        usable == visual.ok /\ shlex_split(visual.val).ok /\ shlex_split(visual.val).parts # <<>>
        raw == IF usable THEN visual ELSE env_var(e, "EDITOR")
    IN  IF ~raw.ok THEN Err("MissingEditor")
        ELSE LET parts == shlex_split(raw.val) IN
             IF ~parts.ok THEN Err("ParseFailed")
             ELSE IF parts.parts = <<>> THEN Err("EmptyCommand")
             ELSE Ok(parts.parts)

resolve_editor_command(e) ==
    LET visual == env_var(e, "VISUAL")
        raw == IF visual.ok THEN visual ELSE env_var(e, "EDITOR")
    IN  IF ~raw.ok THEN Err("MissingEditor")
        ELSE LET parts == shlex_split(raw.val) IN
             IF ~parts.ok THEN Err("ParseFailed")
             ELSE IF parts.parts = <<>> THEN Err("EmptyCommand")
             ELSE Ok(parts.parts)

----------------------------------------------------------------------------
(* The temp directory and the editor process *)

Paths == 1..NPaths
NoPath == 0

Digits == <<"0", "1", "2", "3", "4", "5", "6", "7", "8", "9">>

\* Builder::new().suffix(".md"): a name in the temp directory ending in .md
PathName(p) == <<"/", "t", "m", "p", "/", Digits[p + 1], ".", "m", "d">>

Absent == [st |-> "absent", data |-> <<>>]
TextFile(t) == [st |-> "text", data |-> t]
\* a file whose bytes are not valid UTF-8
BinaryFile == [st |-> "binary", data |-> <<>>]

TextChars == {"s", "e"}
StrSeed == <<"s", "e", "e", "d">>
StrEdited == <<"e", "d", "i", "t", "e", "d">>
Texts == UNION {[1..k -> TextChars] : k \in 0..MaxTextLen} \cup {StrSeed, StrEdited}

StrDashW == <<"-", "w">>
StrNope == <<"n", "o", "p", "e">>
Tokens == {StrEd, StrDashW, StrNope}
\* the programs that exist and are executable
Installed == {StrEd}
Commands == UNION {[1..k -> Tokens] : k \in 0..MaxCmdLen}

ExitCodes == 0..MaxExitCode

\* st: none, running or exited; argv: its argument vector; code: its exit code;
\* touched: it has written or removed the file; left: the file as it exits
NoChild == [st |-> "none", argv |-> <<>>, code |-> 0, touched |-> FALSE, left |-> Absent]

\* ExitStatus::success()
success(code) == code = 0

----------------------------------------------------------------------------
(* Values returned by run_editor *)

Pending == [kind |-> "pending", text |-> <<>>, msg |-> "", status |-> 0]
OkNone == [kind |-> "None", text |-> <<>>, msg |-> "", status |-> 0]
OkSome(t) == [kind |-> "Some", text |-> t, msg |-> "", status |-> 0]
\* Report::msg("editor command is empty")
ErrEmptyCommand == [kind |-> "Err", text |-> <<>>, msg |-> "editor command is empty", status |-> 0]
\* an io::Error propagated by ?, from the named operation
ErrIo(op) == [kind |-> "Err", text |-> <<>>, msg |-> op, status |-> 0]
\* Report::msg(format!("editor exited with status {status}"))
ErrExit(code) == [kind |-> "Err", text |-> <<>>, msg |-> "editor exited with status", status |-> code]

Event(op, p, t, argv) == [op |-> op, path |-> p, text |-> t, argv |-> argv]

----------------------------------------------------------------------------
(* run_editor *)

Sessions == DOMAIN pc

\* no run_editor call exists
NoSessions ==
    /\ pc = <<>> /\ seed = <<>> /\ editor_cmd = <<>> /\ tempfile = <<>>
    /\ child = <<>> /\ contents = <<>> /\ result = <<>> /\ trace = <<>>
    /\ fs = [p \in Paths |-> Absent]

\* the calls of S have been made with arguments from Seeds and Cmds; none has run
InitSessions(S, Seeds, Cmds) ==
    /\ pc = [s \in S |-> "Created"]
    /\ seed \in [S -> Seeds]
    /\ editor_cmd \in [S -> Cmds]
    /\ tempfile = [s \in S |-> NoPath]
    /\ child = [s \in S |-> NoChild]
    /\ contents = [s \in S |-> <<>>]
    /\ result = [s \in S |-> Pending]
    /\ trace = [s \in S |-> <<>>]
    /\ fs = [p \in Paths |-> Absent]

\* the file kept on drop (NamedTempFile::keep): nothing is removed
DropTempfile_keeps(s, files) ==
    /\ fs' = files
    /\ UNCHANGED trace

\* Drop of the NamedTempFile: the file at its path is removed, errors ignored.
DropTempfile(s, files) ==
    /\ fs' = [files EXCEPT ![tempfile[s]] = Absent]
    /\ trace' = [trace EXCEPT ![s] = Append(@, Event("remove", tempfile[s], <<>>, <<>>))]

\* Return Err(r) after the temp file exists: the file is dropped on the way out.
FailAndDrop(s, r) ==
    /\ pc' = [pc EXCEPT ![s] = "Error"]
    /\ result' = [result EXCEPT ![s] = r]
    /\ DropTempfile(s, fs)

\* the editor_cmd.is_empty() check left out: the temp file is made first
Enter_no_empty_check(s) ==
    /\ pc[s] = "Created"
    /\ UNCHANGED <<seed, editor_cmd, child, contents, resolveVars, hostVars>>
    /\ \/ \E p \in Paths :
              /\ fs[p] = Absent
              /\ \A r \in Sessions : tempfile[r] # p
              /\ tempfile' = [tempfile EXCEPT ![s] = p]
              /\ fs' = [fs EXCEPT ![p] = TextFile(<<>>)]
              /\ trace' = [trace EXCEPT ![s] = Append(@, Event("create", p, <<>>, <<>>))]
              /\ pc' = [pc EXCEPT ![s] = "Allocated"]
              /\ UNCHANGED result
       \/ /\ pc' = [pc EXCEPT ![s] = "Error"]
          /\ result' = [result EXCEPT ![s] = ErrIo("tempfile")]
          /\ UNCHANGED <<tempfile, trace, fs>>

\* File::create on one fixed name in the temp directory, shared by all calls
Enter_fixed_name(s) ==
    /\ pc[s] = "Created"
    /\ UNCHANGED <<seed, editor_cmd, child, contents, resolveVars, hostVars>>
    /\ IF editor_cmd[s] = <<>>
       THEN /\ pc' = [pc EXCEPT ![s] = "Error"]
            /\ result' = [result EXCEPT ![s] = ErrEmptyCommand]
            /\ UNCHANGED <<tempfile, trace, fs>>
       ELSE \/ /\ tempfile' = [tempfile EXCEPT ![s] = 1]
               /\ fs' = [fs EXCEPT ![1] = TextFile(<<>>)]
               /\ trace' = [trace EXCEPT ![s] = Append(@, Event("create", 1, <<>>, <<>>))]
               /\ pc' = [pc EXCEPT ![s] = "Allocated"]
               /\ UNCHANGED result
            \/ /\ pc' = [pc EXCEPT ![s] = "Error"]
               /\ result' = [result EXCEPT ![s] = ErrIo("tempfile")]
               /\ UNCHANGED <<tempfile, trace, fs>>

\* The is_empty check and Builder::new().suffix(".md").tempfile()?: a new file
\* under a name of its own (a random name no other NamedTempFile was given,
\* created only if no file has it), or an error.
Enter(s) ==
    /\ pc[s] = "Created"
    /\ UNCHANGED <<seed, editor_cmd, child, contents, resolveVars, hostVars>>
    /\ IF editor_cmd[s] = <<>>
       THEN /\ pc' = [pc EXCEPT ![s] = "Error"]
            /\ result' = [result EXCEPT ![s] = ErrEmptyCommand]
            /\ UNCHANGED <<tempfile, trace, fs>>
       ELSE \/ \E p \in Paths :
                 /\ fs[p] = Absent
                 /\ \A r \in Sessions : tempfile[r] # p
                 /\ tempfile' = [tempfile EXCEPT ![s] = p]
                 /\ fs' = [fs EXCEPT ![p] = TextFile(<<>>)]
                 /\ trace' = [trace EXCEPT ![s] = Append(@, Event("create", p, <<>>, <<>>))]
                 /\ pc' = [pc EXCEPT ![s] = "Allocated"]
                 /\ UNCHANGED result
            \/ /\ pc' = [pc EXCEPT ![s] = "Error"]
               /\ result' = [result EXCEPT ![s] = ErrIo("tempfile")]
               /\ UNCHANGED <<tempfile, trace, fs>>

\* writeln! in place of fs::write: a newline follows the seed
Stage_appends_newline(s) ==
    /\ pc[s] = "Allocated"
    /\ UNCHANGED <<seed, editor_cmd, tempfile, child, contents, resolveVars, hostVars>>
    /\ \/ /\ fs' = [fs EXCEPT ![tempfile[s]] = TextFile(Append(seed[s], NL))]
          /\ trace' = [trace EXCEPT ![s] =
                           Append(@, Event("write", tempfile[s], Append(seed[s], NL), <<>>))]
          /\ pc' = [pc EXCEPT ![s] = "Staged"]
          /\ UNCHANGED result
       \/ FailAndDrop(s, ErrIo("write"))

\* fs::write(tempfile.path(), seed)?
Stage(s) ==
    /\ pc[s] = "Allocated"
    /\ UNCHANGED <<seed, editor_cmd, tempfile, child, contents, resolveVars, hostVars>>
    /\ \/ /\ fs' = [fs EXCEPT ![tempfile[s]] = TextFile(seed[s])]
          /\ trace' = [trace EXCEPT ![s] =
                           Append(@, Event("write", tempfile[s], seed[s], <<>>))]
          /\ pc' = [pc EXCEPT ![s] = "Staged"]
          /\ UNCHANGED result
       \/ FailAndDrop(s, ErrIo("write"))

\* cmd.args(&editor_cmd[..]): the program name passed again as first argument
editor_argv_args_from_zero(cmd, path) == <<cmd[1]>> \o cmd \o <<path>>

\* Command::new(&editor_cmd[0]), .args(&editor_cmd[1..]) when there are any,
\* .arg(tempfile.path()): the argument vector of the child, program first.
editor_argv(cmd, path) ==
    <<cmd[1]>> \o (IF Len(cmd) > 1 THEN SubSeq(cmd, 2, Len(cmd)) ELSE <<>>) \o <<path>>

\* .status(): the child is spawned, or the spawn fails.
Launch(s) ==
    /\ pc[s] = "Staged"
    /\ UNCHANGED <<seed, editor_cmd, tempfile, contents, resolveVars, hostVars>>
    /\ LET argv == editor_argv(editor_cmd[s], PathName(tempfile[s])) IN
       \/ /\ argv[1] \in Installed
          /\ child' = [child EXCEPT ![s] = [st |-> "running", argv |-> argv, code |-> 0,
                                            touched |-> FALSE, left |-> Absent]]
          /\ trace' = [trace EXCEPT ![s] = Append(@, Event("spawn", NoPath, <<>>, argv))]
          /\ pc' = [pc EXCEPT ![s] = "Launched"]
          /\ UNCHANGED <<result, fs>>
       \/ /\ FailAndDrop(s, ErrIo("spawn"))
          /\ UNCHANGED child

\* The editor saves: the file named by its last argument gets new content.
ChildWrite(s) ==
    /\ child[s].st = "running"
    /\ \E f \in {TextFile(t) : t \in Texts} \cup {BinaryFile} :
           fs' = [fs EXCEPT ![tempfile[s]] = f]
    /\ child' = [child EXCEPT ![s].touched = TRUE]
    /\ UNCHANGED <<pc, seed, editor_cmd, tempfile, contents, result, trace, resolveVars, hostVars>>

\* The editor removes the file.
ChildDelete(s) ==
    /\ child[s].st = "running"
    /\ fs[tempfile[s]] # Absent
    /\ fs' = [fs EXCEPT ![tempfile[s]] = Absent]
    /\ child' = [child EXCEPT ![s].touched = TRUE]
    /\ UNCHANGED <<pc, seed, editor_cmd, tempfile, contents, result, trace, resolveVars, hostVars>>

\* The editor process terminates; left records the file as it is at that moment.
ChildExit(s) ==
    /\ child[s].st = "running"
    /\ \E code \in ExitCodes :
           child' = [child EXCEPT ![s] = [@ EXCEPT !.st = "exited", !.code = code,
                                                   !.left = fs[tempfile[s]]]]
    /\ UNCHANGED <<pc, seed, editor_cmd, tempfile, contents, result, trace, fs, resolveVars, hostVars>>

\* the status.success() check left out
Wait_ignores_status(s) ==
    /\ pc[s] = "Launched"
    /\ child[s].st = "exited"
    /\ pc' = [pc EXCEPT ![s] = "Exited"]
    /\ UNCHANGED <<seed, editor_cmd, tempfile, child, contents, result, trace, fs, resolveVars, hostVars>>

\* spawn() and try_wait() in place of status().await: a child still running is
\* taken to have succeeded
Wait_does_not_wait(s) ==
    /\ pc[s] = "Launched"
    /\ child[s].st \in {"running", "exited"}
    /\ UNCHANGED <<seed, editor_cmd, tempfile, child, contents, resolveVars, hostVars>>
    /\ IF child[s].st = "exited" /\ ~success(child[s].code)
       THEN FailAndDrop(s, ErrExit(child[s].code))
       ELSE /\ pc' = [pc EXCEPT ![s] = "Exited"]
            /\ UNCHANGED <<result, trace, fs>>

\* a failed edit retried: after a non-success exit the editor is launched again
Wait_retries(s) ==
    /\ pc[s] = "Launched"
    /\ child[s].st = "exited"
    /\ pc' = [pc EXCEPT ![s] = IF success(child[s].code) THEN "Exited" ELSE "Staged"]
    /\ UNCHANGED <<seed, editor_cmd, tempfile, child, contents, result, trace, fs, resolveVars, hostVars>>

\* .await? resumes with the exit status; a status that is not success is an error.
Wait(s) ==
    /\ pc[s] = "Launched"
    /\ child[s].st = "exited"
    /\ UNCHANGED <<seed, editor_cmd, tempfile, child, contents, resolveVars, hostVars>>
    /\ IF ~success(child[s].code)
       THEN FailAndDrop(s, ErrExit(child[s].code))
       ELSE /\ pc' = [pc EXCEPT ![s] = "Exited"]
            /\ UNCHANGED <<result, trace, fs>>

\* fs::read_to_string(..).unwrap_or_default(): a failed read counts as empty
Collect_unwrap_or_default(s) ==
    /\ pc[s] = "Exited"
    /\ UNCHANGED <<seed, editor_cmd, tempfile, child, resolveVars, hostVars>>
    /\ contents' = [contents EXCEPT ![s] =
                        IF fs[tempfile[s]].st = "text" THEN fs[tempfile[s]].data ELSE <<>>]
    /\ trace' = [trace EXCEPT ![s] = Append(@, Event("read", tempfile[s], <<>>, <<>>))]
    /\ pc' = [pc EXCEPT ![s] = "Collected"]
    /\ UNCHANGED <<result, fs>>

\* fs::read_to_string(tempfile.path())?
Collect(s) ==
    /\ pc[s] = "Exited"
    /\ UNCHANGED <<seed, editor_cmd, tempfile, child, resolveVars, hostVars>>
    /\ LET read == Event("read", tempfile[s], <<>>, <<>>) IN
       IF fs[tempfile[s]].st = "text"
       THEN /\ contents' = [contents EXCEPT ![s] = fs[tempfile[s]].data]
            /\ trace' = [trace EXCEPT ![s] = Append(@, read)]
            /\ pc' = [pc EXCEPT ![s] = "Collected"]
            /\ UNCHANGED <<result, fs>>
       ELSE /\ pc' = [pc EXCEPT ![s] = "Error"]
            /\ result' = [result EXCEPT ![s] = ErrIo("read")]
            /\ fs' = [fs EXCEPT ![tempfile[s]] = Absent]
            /\ trace' = [trace EXCEPT ![s] =
                             @ \o <<read, Event("remove", tempfile[s], <<>>, <<>>)>>]
            /\ UNCHANGED contents

\* the seed returned in place of the contents read back
Finish_returns_seed(s) ==
    /\ pc[s] = "Collected"
    /\ UNCHANGED <<seed, editor_cmd, tempfile, child, contents, resolveVars, hostVars>>
    /\ pc' = [pc EXCEPT ![s] = "Done"]
    /\ result' = [result EXCEPT ![s] =
                      IF contents[s] = <<>> THEN OkNone ELSE OkSome(seed[s])]
    /\ DropTempfile(s, fs)

\* the contents.is_empty() check left out
Finish_no_empty_check(s) ==
    /\ pc[s] = "Collected"
    /\ UNCHANGED <<seed, editor_cmd, tempfile, child, contents, resolveVars, hostVars>>
    /\ pc' = [pc EXCEPT ![s] = "Done"]
    /\ result' = [result EXCEPT ![s] = OkSome(contents[s])]
    /\ DropTempfile(s, fs)

\* Ok(None) for empty contents, Ok(Some(contents)) otherwise; the temp file is dropped.
Finish(s) ==
    /\ pc[s] = "Collected"
    /\ UNCHANGED <<seed, editor_cmd, tempfile, child, contents, resolveVars, hostVars>>
    /\ pc' = [pc EXCEPT ![s] = "Done"]
    /\ result' = [result EXCEPT ![s] =
                      IF contents[s] = <<>> THEN OkNone ELSE OkSome(contents[s])]
    /\ DropTempfile(s, fs)

Init ==
    /\ env = [VISUAL |-> Unset, EDITOR |-> Unset]
    /\ rpc = "idle"
    /\ resolved = NotReturned
    /\ InitSessions({1}, Texts, Commands)
    /\ ticks = 0

Next ==
    \/ \E s \in Sessions : Enter(s)
    \/ \E s \in Sessions : Stage(s)
    \/ \E s \in Sessions : Launch(s)
    \/ \E s \in Sessions : ChildWrite(s)
    \/ \E s \in Sessions : ChildDelete(s)
    \/ \E s \in Sessions : ChildExit(s)
    \/ \E s \in Sessions : Wait(s)
    \/ \E s \in Sessions : Collect(s)
    \/ \E s \in Sessions : Finish(s)

Spec == Init /\ [][Next]_vars

\* the one call of Spec
OneSession == {1}

\* The runtime polls the task of the call whenever it can make progress: every
\* step of run_editor that stays possible is eventually taken. Nothing is
\* assumed of the editor, which may run for ever.
TaskFairness ==
    \A s \in OneSession :
        /\ WF_vars(Enter(s))
        /\ WF_vars(Stage(s))
        /\ WF_vars(Launch(s))
        /\ WF_vars(Wait(s))
        /\ WF_vars(Collect(s))
        /\ WF_vars(Finish(s))

SpecFair == Init /\ [][Next]_vars /\ TaskFairness

----------------------------------------------------------------------------
(* The call as one task among others of the host's runtime *)

\* std::process::Command::status(): the thread is blocked until the child exits
holds_worker_blocking(p) == p \in {"Allocated", "Staged", "Launched", "Exited", "Collected"}

\* A task occupies a worker thread while it runs between two polls. run_editor
\* runs from its start to the .await of tokio's status(), where it yields until
\* the child has exited, and from there to its return.
holds_worker(p) == p \in {"Allocated", "Staged", "Exited", "Collected"}

BusyWorkers == Cardinality({s \in Sessions : holds_worker(pc[s])})

\* another task of the host (input events, timers, redraws) runs one step on
\* a free worker
OtherTask ==
    /\ BusyWorkers < Workers
    /\ ticks < MaxTicks
    /\ ticks' = ticks + 1
    /\ UNCHANGED <<resolveVars, runVars>>

NextHost == Next \/ OtherTask

\* the runtime also polls the other task whenever a worker is free
SpecHost == Init /\ [][NextHost]_vars /\ TaskFairness /\ WF_vars(OtherTask)

----------------------------------------------------------------------------
(* The caller drops the call while it waits *)

\* the temp file outlives the future (kept, or owned by something the drop
\* does not reach): dropping the call removes nothing
Cancel_leaks(s) ==
    /\ pc[s] = "Launched"
    /\ pc' = [pc EXCEPT ![s] = "Cancelled"]
    /\ UNCHANGED <<seed, editor_cmd, tempfile, child, contents, result, trace, fs,
                   resolveVars, hostVars>>

\* The future of run_editor is dropped at its only suspension point, the .await
\* of status(): its locals are dropped, tempfile among them, so the file is
\* removed. The child is not killed (kill_on_drop is not set) and runs on.
Cancel(s) ==
    /\ pc[s] = "Launched"
    /\ pc' = [pc EXCEPT ![s] = "Cancelled"]
    /\ DropTempfile(s, fs)
    /\ UNCHANGED <<seed, editor_cmd, tempfile, child, contents, result, resolveVars, hostVars>>

NextCancel == Next \/ \E s \in Sessions : Cancel(s)

SpecCancel == Init /\ [][NextCancel]_vars

----------------------------------------------------------------------------
(* Two run_editor calls in progress at once *)

ConcurrentSeeds == {<<>>, StrSeed}
ConcurrentCommands == {<<StrEd>>, <<StrNope>>}

InitConcurrent ==
    /\ env = [VISUAL |-> Unset, EDITOR |-> Unset]
    /\ rpc = "idle"
    /\ resolved = NotReturned
    /\ InitSessions({1, 2}, ConcurrentSeeds, ConcurrentCommands)
    /\ ticks = 0

\* the steps of the two calls and of their editors, in any order
SpecConcurrent == InitConcurrent /\ [][Next]_vars

----------------------------------------------------------------------------
(* Resolution of one environment *)

EnvNames == {"VISUAL", "EDITOR"}

\* values enumerated in full for one variable ...
RichVals == {Unset, NotUnicode} \cup {Set(s) : s \in StringsUpTo(MaxValLen) \cup Examples}
\* ... while the other variable takes one value of each kind
SmallVals == {Unset, NotUnicode, Set(StrEd), Set(StrVis), Set(<<>>), Set(<<SP>>),
              Set(<<DQ>>), Set(StrCodeWait)}

InitResolve ==
    /\ \E v \in RichVals, w \in SmallVals :
           \/ env = [VISUAL |-> v, EDITOR |-> w]
           \/ env = [VISUAL |-> w, EDITOR |-> v]
    /\ rpc = "call"
    /\ resolved = NotReturned
    /\ NoSessions
    /\ ticks = 0

\* the first result kept and handed out again (a OnceLock around the lookup)
Resolve_cached ==
    /\ rpc = "call"
    /\ resolved' = IF resolved = NotReturned THEN resolve_editor_command(env) ELSE resolved
    /\ rpc' = "returned"
    /\ UNCHANGED env
    /\ UNCHANGED <<runVars, hostVars>>

Resolve ==
    /\ rpc = "call"
    /\ resolved' = resolve_editor_command(env)
    /\ rpc' = "returned"
    /\ UNCHANGED env
    /\ UNCHANGED <<runVars, hostVars>>

NextResolve == Resolve

SpecResolve == InitResolve /\ [][NextResolve]_vars

----------------------------------------------------------------------------
(* Resolution again and again while the environment changes *)

\* env::set_var(key, value)
set_var(key, value) ==
    /\ env' = [env EXCEPT ![key] = value]
    /\ UNCHANGED <<rpc, resolved, runVars, hostVars>>

\* env::remove_var(key)
remove_var(key) ==
    /\ env' = [env EXCEPT ![key] = Unset]
    /\ UNCHANGED <<rpc, resolved, runVars, hostVars>>

\* the caller, holding the earlier result, calls resolve_editor_command again
CallAgain ==
    /\ rpc = "returned"
    /\ rpc' = "call"
    /\ UNCHANGED <<env, resolved, runVars, hostVars>>

\* a first call has returned, with VISUAL=vis and EDITOR=ed
InitEnv ==
    /\ env = [VISUAL |-> Set(StrVis), EDITOR |-> Set(StrEd)]
    /\ rpc = "returned"
    /\ resolved = resolve_editor_command(env)
    /\ NoSessions
    /\ ticks = 0

NextEnv ==
    \/ \E key \in EnvNames, value \in SmallVals \ {Unset} : set_var(key, value)
    \/ \E key \in EnvNames : remove_var(key)
    \/ CallAgain
    \/ Resolve

SpecEnv == InitEnv /\ [][NextEnv]_vars

----------------------------------------------------------------------------
(* Properties of resolve_editor_command *)

Returned == rpc = "returned"

IsSet(name) == env[name].st = "set"

\* what tokenizing one value gives the caller
OutcomeOf(raw) ==
    LET t == shlex_split(raw) IN
    IF ~t.ok THEN Err("ParseFailed")
    ELSE IF t.parts = <<>> THEN Err("EmptyCommand")
    ELSE Ok(t.parts)

\* C1: VISUAL has strict precedence. Whenever VISUAL is set to a readable
\* value the result is the tokenization of VISUAL's value alone, whatever
\* EDITOR is; EDITOR's value decides the result only when VISUAL is absent or
\* unreadable.
C1_VisualPrecedence ==
    Returned =>
        /\ IsSet("VISUAL") => resolved = OutcomeOf(env.VISUAL.val)
        /\ (~IsSet("VISUAL") /\ IsSet("EDITOR")) => resolved = OutcomeOf(env.EDITOR.val)

\* VISUAL=vis and EDITOR=ed resolve to the single token vis
C1_Witness ==
    /\ Returned
    /\ env = [VISUAL |-> Set(StrVis), EDITOR |-> Set(StrEd)]
    /\ resolved = Ok(<<StrVis>>)

\* C2: with neither VISUAL nor EDITOR set the call fails with MissingEditor,
\* and MissingEditor is never returned when one of the two is set to a
\* readable value.
C2_MissingEditorIffUnset ==
    Returned =>
        /\ (env.VISUAL = Unset /\ env.EDITOR = Unset) => resolved = Err("MissingEditor")
        /\ resolved.err = "MissingEditor" => (~IsSet("VISUAL") /\ ~IsSet("EDITOR"))

C2_Witness ==
    /\ Returned
    /\ env = [VISUAL |-> Unset, EDITOR |-> Unset]
    /\ resolved = Err("MissingEditor")

\* the value the resolver is documented to use: VISUAL if set, else EDITOR
Selected == IF IsSet("VISUAL") THEN env.VISUAL ELSE env.EDITOR

AllBlank(s) == \A i \in 1..Len(s) : s[i] \in Whitespace

\* C3: a successful result is never an empty token list. A selected value
\* that tokenizes to zero tokens (the empty value, a whitespace-only value)
\* makes the call fail with EmptyCommand.
C3_NeverEmptyOnSuccess ==
    Returned =>
        /\ resolved.ok => Len(resolved.parts) >= 1
        /\ (Selected.st = "set" /\ AllBlank(Selected.val)) => resolved = Err("EmptyCommand")
        /\ (Selected.st = "set" /\ shlex_split(Selected.val) = [ok |-> TRUE, parts |-> <<>>])
               => resolved = Err("EmptyCommand")

\* a whitespace-only VISUAL is rejected although EDITOR is unset
C3_Witness ==
    /\ Returned
    /\ env.VISUAL = Set(StrBlank)
    /\ resolved = Err("EmptyCommand")

\* Shell quoting state after reading s[1..i], as a scan over the characters:
\* between words, in a word, in a comment, inside '...' or "...", or just
\* after a backslash (outside quotes, inside "...").
RECURSIVE QuoteState(_, _)
QuoteState(s, i) ==
    IF i = 0 THEN "blank"
    ELSE LET m == QuoteState(s, i - 1)
             c == s[i]
         IN  CASE m = "comment" -> IF c = NL THEN "blank" ELSE "comment"
               [] m = "escape" -> "word"
               [] m = "dqescape" -> "dq"
               [] m = "sq" -> IF c = SQ THEN "word" ELSE "sq"
               [] m = "dq" -> IF c = DQ THEN "word" ELSE IF c = BS THEN "dqescape" ELSE "dq"
               [] OTHER -> \* "blank" or "word"
                    IF c \in Whitespace THEN "blank"
                    ELSE IF c = DQ THEN "dq"
                    ELSE IF c = SQ THEN "sq"
                    ELSE IF c = BS THEN "escape"
                    ELSE IF c = HASH /\ m = "blank" THEN "comment"
                    ELSE "word"

\* the value ends inside a quote or right after a backslash
Unterminated(s) == QuoteState(s, Len(s)) \in {"sq", "dq", "escape", "dqescape"}

\* C4: a selected value that is not valid shell-quoted text (a quote or an
\* escape left open) makes the call fail with ParseFailed: no token list,
\* not EmptyCommand, not MissingEditor. ParseFailed is returned for no other
\* value.
C4_ParseFailedOnUnterminated ==
    Returned =>
        /\ (Selected.st = "set" /\ Unterminated(Selected.val)) => resolved = Err("ParseFailed")
        /\ resolved.err = "ParseFailed" => (Selected.st = "set" /\ Unterminated(Selected.val))

\* a trailing unmatched quote
C4_Witness ==
    /\ Returned
    /\ env.VISUAL = Set(StrUnmatched)
    /\ resolved = Err("ParseFailed")

\* Values made of plain characters, blanks and quotes only.
PlainQuoted(s) == \A i \in 1..Len(s) : s[i] \notin {BS, HASH, DOLLAR, BQ}

\* Shell word splitting of such a value, position by position: a blank outside
\* quotes separates, a quote character that opens or closes a quoted segment
\* is a mark, every other character is literal. A token is a maximal run of
\* positions that are not separators; its text is the run's literal
\* characters.
RefTokens(s) ==
    LET n == Len(s)
        class(i) ==
            LET m == QuoteState(s, i - 1) IN
            IF m = "dq" THEN (IF s[i] = DQ THEN "mark" ELSE "lit")
            ELSE IF m = "sq" THEN (IF s[i] = SQ THEN "mark" ELSE "lit")
            ELSE IF s[i] \in Whitespace THEN "sep"
            ELSE IF s[i] \in {DQ, SQ} THEN "mark"
            ELSE "lit"
        starts == {i \in 1..n : class(i) # "sep" /\ (i = 1 \/ class(i - 1) = "sep")}
        nth(S, k) == CHOOSE i \in S : Cardinality({j \in S : j <= i}) = k
        runEnd(i) == CHOOSE j \in i..n :
                         /\ \A p \in i..j : class(p) # "sep"
                         /\ (j = n \/ class(j + 1) = "sep")
        token(i) ==
            LET lits == {p \in i..runEnd(i) : class(p) = "lit"} IN
            [k \in 1..Cardinality(lits) |-> s[nth(lits, k)]]
    IN  [k \in 1..Cardinality(starts) |-> token(nth(starts, k))]

StrProg == <<"p", "r", "o", "g">>
StrFlag == <<"-", "-", "f", "l", "a", "g">>
StrAB == <<"a", SP, "b">>

\* C5: tokenization is shell word splitting. For a value of plain characters,
\* blanks and balanced quotes the result is the tokens separated by unquoted
\* blanks, a quoted segment kept in one token with its quotes removed, in the
\* original order; prog --flag "a b" gives exactly prog, --flag, a b.
C5_ShellWordSplitting ==
    Returned =>
        /\ (/\ Selected.st = "set"
            /\ PlainQuoted(Selected.val)
            /\ ~Unterminated(Selected.val)
            /\ RefTokens(Selected.val) # <<>>) => resolved = Ok(RefTokens(Selected.val))
        /\ Selected = Set(StrProgFlag) => resolved = Ok(<<StrProg, StrFlag, StrAB>>)

C5_Witness ==
    /\ Returned
    /\ env.VISUAL = Set(StrProgFlag)
    /\ resolved = Ok(<<StrProg, StrFlag, StrAB>>)

----------------------------------------------------------------------------
(* Properties of run_editor *)

Returns(s) == pc[s] \in {"Done", "Error"}

Ops(s) == {trace[s][i].op : i \in 1..Len(trace[s])}

\* C6: a call with an empty command fails at once with "editor command is
\* empty" and does nothing else: no temp file is created, nothing is written,
\* no process is spawned, whatever the seed.
C6_EmptyCommandNoActivity ==
    \A s \in Sessions :
        editor_cmd[s] = <<>> =>
            /\ pc[s] \in {"Created", "Error"}
            /\ pc[s] = "Error" => result[s] = ErrEmptyCommand
            /\ trace[s] = <<>>
            /\ tempfile[s] = NoPath
            /\ child[s] = NoChild
            /\ (\A r \in Sessions : editor_cmd[r] = <<>>) => \A p \in Paths : fs[p] = Absent

C6_Witness ==
    \E s \in Sessions :
        /\ editor_cmd[s] = <<>>
        /\ seed[s] = StrSeed
        /\ pc[s] = "Error"
        /\ result[s] = ErrEmptyCommand

Occurrences(seq, x) == Cardinality({i \in 1..Len(seq) : seq[i] = x})

\* C7: the child is started as program t0 with arguments t1..tN in their
\* order followed by the temp file's path as one last argument: nothing is
\* dropped, reordered or repeated, and the path appears once, also for a
\* command of one token.
C7_ArgvIsCommandThenPath ==
    \A s \in Sessions :
        child[s].st # "none" =>
            LET argv == child[s].argv
                cmd == editor_cmd[s]
                path == PathName(tempfile[s])
            IN  /\ cmd # <<>>
                /\ Len(argv) = Len(cmd) + 1
                /\ \A i \in 1..Len(cmd) : argv[i] = cmd[i]
                /\ argv[Len(argv)] = path
                /\ Occurrences(argv, path) = 1
                /\ Occurrences(trace[s], Event("spawn", NoPath, <<>>, argv)) = 1

C7_Witness ==
    \E s \in Sessions :
        /\ editor_cmd[s] = <<StrEd, StrDashW>>
        /\ child[s].st = "running"
        /\ child[s].argv = <<StrEd, StrDashW, PathName(tempfile[s])>>

\* C8: when the editor exits without success the call fails with an error that
\* carries the exit status and the temp file is never read, whatever the file
\* holds at that moment (the seed, an edited text, nothing, or no file).
C8_NonSuccessExitIsError ==
    \A s \in Sessions :
        (child[s].st = "exited" /\ ~success(child[s].code) /\ pc[s] # "Launched") =>
            /\ pc[s] = "Error"
            /\ result[s] = ErrExit(child[s].code)
            /\ "read" \notin Ops(s)

C8_Witness ==
    \E s \in Sessions :
        /\ pc[s] = "Error"
        /\ child[s].st = "exited"
        /\ child[s].code = 1
        /\ child[s].left = TextFile(StrEdited)
        /\ result[s] = ErrExit(1)

\* C9: when the editor exits with success leaving a readable, non-empty file,
\* the call returns Some(text) with the file's full content at editor exit,
\* not the seed.
C9_ReturnsEditedContent ==
    \A s \in Sessions :
        (/\ Returns(s)
         /\ child[s].st = "exited"
         /\ success(child[s].code)
         /\ child[s].left.st = "text"
         /\ child[s].left.data # <<>>) =>
            /\ pc[s] = "Done"
            /\ result[s] = OkSome(child[s].left.data)

\* seed "seed", the editor writes "edited"
C9_Witness ==
    \E s \in Sessions :
        /\ pc[s] = "Done"
        /\ seed[s] = StrSeed
        /\ child[s].left = TextFile(StrEdited)
        /\ result[s] = OkSome(StrEdited)

\* C10: when the editor exits with success leaving the file empty the call
\* returns Ok(None), never an error, and Some(text) is only ever returned with
\* a non-empty text.
C10_EmptyFileIsNone ==
    \A s \in Sessions :
        /\ (/\ Returns(s)
            /\ child[s].st = "exited"
            /\ success(child[s].code)
            /\ child[s].left = TextFile(<<>>)) =>
               /\ pc[s] = "Done"
               /\ result[s] = OkNone
        /\ result[s].kind = "Some" => result[s].text # <<>>

\* seed "seed", the editor truncates the file
C10_Witness ==
    \E s \in Sessions :
        /\ pc[s] = "Done"
        /\ seed[s] = StrSeed
        /\ child[s].left = TextFile(<<>>)
        /\ result[s] = OkNone

\* C11: once run_editor has returned, on every path that created a temp file
\* (write failure, spawn failure, non-success exit, read failure, success with
\* or without content), no file is left at the path of that temp file, and
\* removing it was the call's last operation.
C11_TempFileRemovedOnReturn ==
    \A s \in Sessions :
        (Returns(s) /\ "create" \in Ops(s)) =>
            /\ tempfile[s] # NoPath
            /\ fs[tempfile[s]] = Absent
            /\ trace[s][Len(trace[s])] = Event("remove", tempfile[s], <<>>, <<>>)

\* a command whose executable does not exist: the spawn fails, the file is gone
C11_Witness ==
    \E s \in Sessions :
        /\ editor_cmd[s] = <<StrNope>>
        /\ pc[s] = "Error"
        /\ result[s] = ErrIo("spawn")
        /\ "create" \in Ops(s)
        /\ fs[tempfile[s]] = Absent

\* Position of a step in the session's order. Allocated (temp file made, seed
\* not yet written) lies between Created and Staged.
Rank(p) ==
    CASE p = "Created" -> 0
      [] p = "Allocated" -> 1
      [] p = "Staged" -> 2
      [] p = "Launched" -> 3
      [] p = "Exited" -> 4
      [] p = "Collected" -> 5
      [] p = "Done" -> 6
      [] p = "Error" -> 7

OpRank(op) ==
    CASE op = "create" -> 1
      [] op = "write" -> 2
      [] op = "spawn" -> 3
      [] op = "read" -> 4
      [] op = "remove" -> 5

\* every step of a session moves it to the next position or ends it in Error;
\* Done and Error are final
ForwardStep ==
    \A s \in Sessions :
        /\ pc[s] \in {"Done", "Error"} =>
               (pc'[s] = pc[s] /\ result'[s] = result[s] /\ trace'[s] = trace[s])
        /\ pc'[s] # pc[s] =>
               \/ pc'[s] = "Error"
               \/ Rank(pc'[s]) = Rank(pc[s]) + 1

\* the operations of a session happen in the order create, write, spawn, read,
\* remove, each at most once; the read comes only after a successful exit
OrderedOps ==
    \A s \in Sessions :
        /\ \A i, j \in 1..Len(trace[s]) :
               i < j => OpRank(trace[s][i].op) < OpRank(trace[s][j].op)
        /\ "spawn" \in Ops(s) => {"create", "write"} \subseteq Ops(s)
        /\ "read" \in Ops(s) =>
               (/\ "spawn" \in Ops(s)
                /\ child[s].st = "exited"
                /\ success(child[s].code))
        /\ pc[s] = "Error" => result[s].kind = "Err"

\* C12: a session only moves forward through Created, Staged, Launched,
\* Exited, Collected, Done. The temp file is created and the seed written
\* before the child is launched, the file is read only after the child has
\* exited with success, a failure at any step is final (no later step, no
\* retry), so at most one child is spawned per session.
C12_ForwardOnly == []OrderedOps /\ [][ForwardStep]_vars

\* a session that went through every step
C12_Witness ==
    \E s \in Sessions :
        /\ pc[s] = "Done"
        /\ [i \in 1..Len(trace[s]) |-> trace[s][i].op]
               = <<"create", "write", "spawn", "read", "remove">>

\* C13: the seed is written to the temp file verbatim before the launch. As
\* long as the running editor has not touched the file it holds exactly the
\* seed, and an editor that exits with success without touching it makes the
\* call return Some(seed) for a non-empty seed and None for the empty seed.
C13_SeedVerbatim ==
    \A s \in Sessions :
        /\ (child[s].st = "running" /\ ~child[s].touched) =>
               fs[tempfile[s]] = TextFile(seed[s])
        /\ (/\ Returns(s)
            /\ child[s].st = "exited"
            /\ success(child[s].code)
            /\ ~child[s].touched) =>
               result[s] = IF seed[s] = <<>> THEN OkNone ELSE OkSome(seed[s])

\* seed "seed", an editor that quits without saving
C13_Witness ==
    \E s \in Sessions :
        /\ pc[s] = "Done"
        /\ seed[s] = StrSeed
        /\ ~child[s].touched
        /\ Ops(s) = {"create", "write", "spawn", "read", "remove"}
        /\ result[s] = OkSome(StrSeed)

\* a session that holds a temp file and has not returned
Live(s) == tempfile[s] # NoPath /\ ~Returns(s)

\* what a call returns given its own editor's exit code and the file that
\* editor left
OwnResult(s) ==
    IF ~success(child[s].code) THEN ErrExit(child[s].code)
    ELSE IF child[s].left.st # "text" THEN ErrIo("read")
    ELSE IF child[s].left.data = <<>> THEN OkNone
    ELSE OkSome(child[s].left.data)

\* C14: concurrent sessions do not interfere. Two live sessions hold distinct
\* paths; a live session's file is what that session and its own editor made
\* of it (never written or removed by the other session or its cleanup); and
\* a call's result follows from its own editor's exit status and its own
\* file's final content, under every interleaving of the two sessions' steps.
C14_SessionsIndependent ==
    \A s \in Sessions :
        /\ \A r \in Sessions \ {s} : (Live(s) /\ Live(r)) => tempfile[s] # tempfile[r]
        /\ pc[s] = "Allocated" => fs[tempfile[s]] = TextFile(<<>>)
        /\ pc[s] = "Staged" => fs[tempfile[s]] = TextFile(seed[s])
        /\ (pc[s] = "Launched" /\ child[s].st = "running" /\ ~child[s].touched) =>
               fs[tempfile[s]] = TextFile(seed[s])
        /\ (pc[s] \in {"Launched", "Exited", "Collected"} /\ child[s].st = "exited") =>
               fs[tempfile[s]] = child[s].left
        /\ pc[s] = "Collected" => contents[s] = child[s].left.data
        /\ (Returns(s) /\ child[s].st = "exited") => result[s] = OwnResult(s)

\* both sessions are waiting for their editors, one of which has saved
C14_Witness ==
    /\ Sessions = {1, 2}
    /\ pc[1] = "Launched" /\ pc[2] = "Launched"
    /\ child[1].st = "running" /\ child[2].st = "running"
    /\ tempfile[1] # tempfile[2]
    /\ fs[tempfile[1]] = TextFile(StrEdited)
    /\ fs[tempfile[2]] = TextFile(seed[2])

\* the outcome the environment e calls for, whatever was returned before
ExpectedOf(e) ==
    IF e.VISUAL.st = "set" THEN OutcomeOf(e.VISUAL.val)
    ELSE IF e.EDITOR.st = "set" THEN OutcomeOf(e.EDITOR.val)
    ELSE Err("MissingEditor")

\* C15: resolve_editor_command keeps no state across calls. After any sequence
\* of changes to VISUAL and EDITOR interleaved with calls, what a call returns
\* is a function of the two values at the time of that call, never of an
\* earlier result.
C15_NoStateAcrossCalls ==
    [][(rpc = "call" /\ rpc' = "returned") => resolved' = ExpectedOf(env)]_vars

\* after the first call returned vis, both variables were removed and a later
\* call failed with MissingEditor
C15_Witness ==
    /\ rpc = "returned"
    /\ env = [VISUAL |-> Unset, EDITOR |-> Unset]
    /\ resolved = Err("MissingEditor")

\* C16: when the editor exits with success but the temp file cannot be read
\* afterwards (it was removed, or is not valid text), the call returns an I/O
\* error, neither the no-change signal nor the seed, and no file is left at the
\* temp file's path.
C16_ReadFailureIsIoError ==
    \A s \in Sessions :
        (/\ Returns(s)
         /\ child[s].st = "exited"
         /\ success(child[s].code)
         /\ child[s].left.st # "text") =>
            /\ pc[s] = "Error"
            /\ result[s] = ErrIo("read")
            /\ result[s].kind \notin {"None", "Some"}
            /\ "read" \in Ops(s)
            /\ fs[tempfile[s]] = Absent

\* the editor removed the file and exited with success
C16_Witness ==
    \E s \in Sessions :
        /\ pc[s] = "Error"
        /\ seed[s] = StrSeed
        /\ child[s].st = "exited"
        /\ success(child[s].code)
        /\ child[s].left = Absent
        /\ result[s] = ErrIo("read")

\* C17: after a successful launch the call does not return while the child is
\* running (it stays suspended at the wait), and once the child has terminated
\* the call reaches a final outcome, Done or Error: it does not wait for ever.
C17_ReturnsAfterChildExit ==
    /\ [](\A s \in OneSession : child[s].st = "running" => pc[s] = "Launched")
    /\ \A s \in OneSession : (child[s].st = "exited") ~> Returns(s)

\* the call has returned after its editor saved and exited
C17_Witness ==
    \E s \in Sessions :
        /\ Returns(s)
        /\ child[s].st = "exited"
        /\ child[s].touched
        /\ "spawn" \in Ops(s)

\* C18: while the call is suspended waiting for its editor, the other tasks of
\* the runtime can take steps: the wait leaves the worker free, and the other
\* task completes its steps also when the editor never exits.
C18_WaitYieldsWorker ==
    /\ [](\A s \in OneSession :
              (pc[s] = "Launched" /\ ticks < MaxTicks) => ENABLED OtherTask)
    /\ <>(ticks = MaxTicks)

\* the other task has run to its end while the editor is still open
C18_Witness ==
    \E s \in Sessions :
        /\ pc[s] = "Launched"
        /\ child[s].st = "running"
        /\ ticks = MaxTicks

Ended(s) == pc[s] \in {"Done", "Error", "Cancelled"}

\* C19: the temp file is released on every way a session can end,
\* cancellation included: the step that ends a session which had created its
\* temp file (a return, or the caller dropping the call while it waits for
\* the editor) leaves no file at the temp file's path, the removal being the
\* session's last operation.
C19_ReleasedOnEveryEnd ==
    [][\A s \in OneSession :
           (~Ended(s) /\ Ended(s)' /\ "create" \in Ops(s)') =>
               /\ fs'[tempfile'[s]] = Absent
               /\ trace'[s][Len(trace'[s])] = Event("remove", tempfile'[s], <<>>, <<>>)]_vars

\* the call was dropped while its editor was running; the file is gone
C19_Witness ==
    \E s \in Sessions :
        /\ pc[s] = "Cancelled"
        /\ child[s].st = "running"
        /\ ~child[s].touched
        /\ fs[tempfile[s]] = Absent
        /\ result[s] = Pending

\* C20: the fallback to EDITOR happens only when VISUAL is absent or
\* unreadable, never because VISUAL's value is unusable. With VISUAL set to an
\* empty or whitespace-only value the call fails with EmptyCommand, with VISUAL
\* set to an unparsable value it fails with ParseFailed, also when EDITOR holds
\* a valid command.
C20_NoFallbackOnUnusableVisual ==
    (Returned /\ IsSet("VISUAL")) =>
        /\ AllBlank(env.VISUAL.val) => resolved = Err("EmptyCommand")
        /\ Unterminated(env.VISUAL.val) => resolved = Err("ParseFailed")
        /\ (IsSet("EDITOR") /\ OutcomeOf(env.EDITOR.val).ok /\ ~OutcomeOf(env.VISUAL.val).ok)
               => ~resolved.ok

\* VISUAL ends in an open quote, EDITOR is ed: ParseFailed
C20_Witness ==
    /\ Returned
    /\ env = [VISUAL |-> Set(StrUnmatched), EDITOR |-> Set(StrEd)]
    /\ resolved = Err("ParseFailed")

====
